---- MODULE Spec2Model ----
(***************************************************************************)
(* A model of server.mjs, the Talabat scraper service:                     *)
(*   - the requireAuth / rateLimit middleware and the periodic cleanup of  *)
(*     the rateLimiter map (specification SpecRate);                       *)
(*   - the GET /search handler: validation, the deadline timer, the scrape *)
(*     promise, Promise.race, and the catch block (specification Spec);    *)
(*   - the function passed to page.evaluate, which locates the cards and   *)
(*     builds the records, applied to the arguments of line 190            *)
(*     (specification SpecCallback).                                       *)
(*                                                                         *)
(* JavaScript values.  A string is a sequence of code units, each a        *)
(* one-character string, or the name "U+XXXX" for a code unit that a TLA+  *)
(* string cannot hold.  A value that may be undefined/null is a sequence   *)
(* of length 0 (absent) or 1 (present).  A number is a record              *)
(* [kind, neg, d, fl]: NaN, an infinity, or the decimal with the digits d, *)
(* the last fl of them after the point; a decimal stands for the IEEE 754  *)
(* double nearest to it, which is the value JavaScript holds.              *)
(***************************************************************************)
EXTENDS Integers, Sequences, FiniteSets, TLC

VARIABLES
    \* ---- module-level state of server.mjs
    maxDeliveryFee, \* MAX_DELIVERY_FEE (line 7)
    rateLimiter,    \* the Map ip -> timestamp (line 11)
    \* ---- the environment of the rate limiter
    clock,          \* Date.now()
    nextCleanup,    \* the time the setInterval callback is next due
    ticks,          \* how many times the clock has advanced (bounded)
    served,         \* how many requests the middleware has handled (bounded)
    out,            \* the outcome of the last request in the middleware
    admitted,       \* per ip, the arrival times of the requests passed on
    \* ---- one GET /search request
    req,            \* req.query: query, location, max
    pc,             \* the handler: idle, race, catchClose, done
    timer,          \* the setTimeout of timeoutPromise: unset, pending, fired
    race,           \* Promise.race: none, pending, rejected
    errorMsg,       \* error.message of the rejection the catch block gets
    spc,            \* the scrape async function's position
    browser,        \* the variable browser: undefined, handle
    proc,           \* the chromium process: none, open, closing, closed
    navigated,      \* page.goto has been called
    responses,      \* what res.json has sent, in order
    \* ---- the rendered page and the function of lines 115-190
    doc,            \* the elements of the document, in document order
    cards,          \* the NodeList of querySelectorAll (line 117)
    maxItems,       \* the argument parseInt(max) of line 190
    items,          \* the array the function returned
    returned        \* the function has returned

varsRate == <<rateLimiter, clock, nextCleanup, ticks, served, out, admitted>>
varsReq == <<req, pc, timer, race, errorMsg, spc, browser, proc, navigated, responses>>
varsEval == <<doc, cards, maxItems, items, returned>>
vars == <<maxDeliveryFee, varsRate, varsReq, varsEval>>

----------------------------------------------------------------------------
(* Bounds of the model. *)

\* the longest document (number of elements the selectors can match)
MaxCards == 3

\* how many times the clock advances
MaxTicks == 3

\* how many requests reach the middleware
MaxRequests == 4

----------------------------------------------------------------------------
(* JavaScript values: optional values and strings *)

None == <<>>
Some(x) == <<x>>
IsSome(o) == Len(o) = 1

Digits == {"0", "1", "2", "3", "4", "5", "6", "7", "8", "9"}

\* the code units trim(), parseInt and parseFloat take for white space:
\* WhiteSpace and LineTerminator of ECMAScript
WhiteSpace ==
    {"\t", "\n", "U+000B", "\f", "\r", " ", "U+00A0", "U+1680",
     "U+2000", "U+2001", "U+2002", "U+2003", "U+2004", "U+2005", "U+2006",
     "U+2007", "U+2008", "U+2009", "U+200A", "U+2028", "U+2029", "U+202F",
     "U+205F", "U+3000", "U+FEFF"}

DigitVal(c) ==
    CASE c = "0" -> 0 [] c = "1" -> 1 [] c = "2" -> 2 [] c = "3" -> 3
      [] c = "4" -> 4 [] c = "5" -> 5 [] c = "6" -> 6 [] c = "7" -> 7
      [] c = "8" -> 8 [] c = "9" -> 9

HexDigits == Digits \cup {"a", "b", "c", "d", "e", "f", "A", "B", "C", "D", "E", "F"}

HexVal(c) ==
    CASE c \in Digits -> DigitVal(c)
      [] c \in {"a", "A"} -> 10 [] c \in {"b", "B"} -> 11 [] c \in {"c", "C"} -> 12
      [] c \in {"d", "D"} -> 13 [] c \in {"e", "E"} -> 14 [] c \in {"f", "F"} -> 15

\* the least and the greatest element of a non-empty set of integers
Min(S) == CHOOSE x \in S : \A y \in S : x <= y
Max(S) == CHOOSE x \in S : \A y \in S : x >= y

\* the length of the longest prefix of s made of code units of the set cs
PrefixLen(s, cs) ==
    LET stop == {i \in 1..Len(s) : s[i] \notin cs}
    IN  IF stop = {} THEN Len(s) ELSE Min(stop) - 1

\* the length of the longest suffix of s made of code units of the set cs
SuffixLen(s, cs) ==
    LET stop == {i \in 1..Len(s) : s[i] \notin cs}
    IN  IF stop = {} THEN Len(s) ELSE Len(s) - Max(stop)

\* s begins with the code units of p
StartsWith(s, p) == Len(s) >= Len(p) /\ SubSeq(s, 1, Len(p)) = p

\* String.prototype.trim
TrimStart(s) == SubSeq(s, PrefixLen(s, WhiteSpace) + 1, Len(s))
TrimEnd(s) == SubSeq(s, 1, Len(s) - SuffixLen(s, WhiteSpace))
Trim(s) == TrimEnd(TrimStart(s))

----------------------------------------------------------------------------
(* JavaScript values: numbers.                                             *)
(*                                                                         *)
(* Natural numbers of any size are sequences of digits 0..9, most          *)
(* significant first, without leading zeros (0 is the empty sequence).     *)
(***************************************************************************)

\* the digits of a natural number n
RECURSIVE NatDigits(_)
NatDigits(n) == IF n = 0 THEN <<>> ELSE Append(NatDigits(n \div 10), n % 10)

StripLeadingZeros(d) == SubSeq(d, PrefixLen(d, {0}) + 1, Len(d))

\* how many zeros d ends with
TrailingZeros(d) == SuffixLen(d, {0})

\* d * m + c as Len(d) digits and the carry out of them, for m, c >= 0: the
\* low half first, then the high half with the carry of the low half
RECURSIVE MulFixed(_, _, _)
MulHigh(high, m, lo) ==
    IF lo[2] = 0 /\ m = 1 THEN <<high \o lo[1], 0>>
    ELSE LET hi == MulFixed(high, m, lo[2])
         IN  <<hi[1] \o lo[1], hi[2]>>

MulFixed(d, m, c) ==
    IF d = <<>> THEN <<d, c>>
    ELSE IF Len(d) = 1 THEN << <<(d[1] * m + c) % 10>>, (d[1] * m + c) \div 10 >>
    ELSE MulHigh(SubSeq(d, 1, Len(d) \div 2), m,
                 MulFixed(SubSeq(d, Len(d) \div 2 + 1, Len(d)), m, c))

\* the digits of d * m + c
MulSmall(d, m, c) ==
    LET r == MulFixed(d, m, c)
    IN  StripLeadingZeros(NatDigits(r[2]) \o r[1])

\* the digit of s at place i, 0 past its end
DigitAt(s, i) == IF i <= Len(s) THEN s[i] ELSE 0

\* the places where a and b differ
Differ(a, b) == {i \in 1..Max({Len(a), Len(b)}) : DigitAt(a, i) # DigitAt(b, i)}

\* digit by digit, a missing digit counting as 0: -1, 0 or 1
LexCmp(a, b) ==
    IF Differ(a, b) = {} THEN 0
    ELSE IF DigitAt(a, Min(Differ(a, b))) < DigitAt(b, Min(Differ(a, b))) THEN -1
    ELSE 1

\* two natural numbers: -1, 0 or 1
NatCmp(a, b) ==
    IF Len(a) < Len(b) THEN -1
    ELSE IF Len(a) > Len(b) THEN 1
    ELSE LexCmp(a, b)

NaN == [kind |-> "nan", neg |-> FALSE, d |-> <<>>, fl |-> 0]
Infinity(neg) == [kind |-> "inf", neg |-> neg, d |-> <<>>, fl |-> 0]

\* every digit of ds is 0
AllZeros(ds) == \A i \in 1..Len(ds) : ds[i] = 0

\* the decimal (-1)^neg * ds / 10^fl, less cut zeros at the end of its
\* fraction; a zero has no digit and no fraction
CutFraction(neg, ds, fl, cut) ==
    [kind |-> "fin", neg |-> neg,
     d |-> StripLeadingZeros(SubSeq(ds, 1, Len(ds) - cut)),
     fl |-> IF AllZeros(ds) THEN 0 ELSE fl - cut]

\* the decimal (-1)^neg * ds / 10^fl in its normal form: fl >= 0, no leading
\* zero, no zero at the end of the fraction
Decimal(neg, ds, fl) ==
    IF AllZeros(ds) THEN CutFraction(neg, <<>>, 0, 0)
    ELSE IF fl <= 0 THEN CutFraction(neg, ds \o [i \in 1..(0 - fl) |-> 0], 0, 0)
    ELSE CutFraction(neg, ds, fl, Min({fl, TrailingZeros(ds)}))

\* the number of a natural n, as in results.length or the literal 0
IntNumber(n) == Decimal(FALSE, NatDigits(n), 0)

IsZero(x) == x.kind = "fin" /\ x.d = <<>>

\* the magnitudes of two numbers that are not NaN, as written: -1, 0 or 1
MagCmp(a, b) ==
    IF a.kind = "inf" \/ b.kind = "inf"
    THEN (IF a.kind = b.kind THEN 0 ELSE IF a.kind = "inf" THEN 1 ELSE -1)
    ELSE IF IsZero(a) \/ IsZero(b)
    THEN (IF IsZero(a) /\ IsZero(b) THEN 0 ELSE IF IsZero(a) THEN -1 ELSE 1)
    ELSE IF Len(a.d) - a.fl < Len(b.d) - b.fl THEN -1
    ELSE IF Len(a.d) - a.fl > Len(b.d) - b.fl THEN 1
    ELSE LexCmp(a.d, b.d)

\* a > b for the numbers as written, before any rounding
GtExact(a, b) ==
    LET an == a.neg /\ ~IsZero(a)
        bn == b.neg /\ ~IsZero(b)
    IN  IF an THEN bn /\ MagCmp(a, b) < 0
        ELSE bn \/ MagCmp(a, b) > 0

\* 2^52 and 2^53
P52 == <<4, 5, 0, 3, 5, 9, 9, 6, 2, 7, 3, 7, 0, 4, 9, 6>>
P53 == <<9, 0, 0, 7, 1, 9, 9, 2, 5, 4, 7, 4, 0, 9, 9, 2>>

\* the digits of D before the last fl
IntPart(D, fl) == IF Len(D) > fl THEN SubSeq(D, 1, Len(D) - fl) ELSE <<>>

\* D / 10^fl = v * 2^k: double or halve until the integer part has 53 bits,
\* or the exponent is that of the subnormal doubles; by more than one bit at
\* a time while the number of digits of the integer part is far from 16
RECURSIVE Scale(_, _, _)
Scale(D, fl, k) ==
    IF Len(D) - fl > 19 THEN Scale(MulSmall(D, 1953125, 0), fl + 9, k - 9)
    ELSE IF NatCmp(IntPart(D, fl), P53) >= 0 THEN Scale(MulSmall(D, 5, 0), fl + 1, k - 1)
    ELSE IF k >= 1074 THEN <<D, fl, k>>
    ELSE IF Len(D) - fl < 9 /\ k + 23 <= 1074 THEN Scale(MulSmall(D, 8388608, 0), fl, k + 23)
    ELSE IF Len(D) - fl < 13 /\ k + 10 <= 1074 THEN Scale(MulSmall(D, 1024, 0), fl, k + 10)
    ELSE IF Len(D) - fl < 15 /\ k + 4 <= 1074 THEN Scale(MulSmall(D, 16, 0), fl, k + 4)
    ELSE IF NatCmp(IntPart(D, fl), P52) < 0 THEN Scale(MulSmall(D, 2, 0), fl, k + 1)
    ELSE <<D, fl, k>>

\* D / 10^fl rounded to an integer, ties to even
RoundHalfEven(D, fl) ==
    LET I == IntPart(D, fl)
        p == Len(D) - fl + 1
        f1 == IF fl = 0 \/ p < 1 THEN 0 ELSE D[p]
        rest == fl > 0 /\ \E i \in 1..Len(D) : i > p /\ D[i] # 0
        odd == I # <<>> /\ I[Len(I)] % 2 = 1
        up == f1 > 5 \/ (f1 = 5 /\ (rest \/ odd))
    IN  IF up THEN MulSmall(I, 1, 1) ELSE I

\* the double nearest to a number that is not NaN: zero, an infinity, or
\* (-1)^neg * n / 2^k with n < 2^53 (round to nearest, ties to even)
DoubleOf(x) ==
    LET zero == [cls |-> "zero", neg |-> FALSE, n |-> <<>>, k |-> 0]
        inf == [cls |-> "inf", neg |-> x.neg, n |-> <<>>, k |-> 0]
    IN  IF x.kind = "inf" \/ (x.kind = "fin" /\ Len(x.d) - x.fl > 309) THEN inf
        ELSE IF IsZero(x) \/ Len(x.d) - x.fl < 0 - 330 THEN zero
        ELSE LET s == Scale(x.d, x.fl, 0)
                 r == RoundHalfEven(s[1], s[2])
                 n == IF r = P53 THEN P52 ELSE r
                 k == IF r = P53 THEN s[3] - 1 ELSE s[3]
             IN  IF n = <<>> THEN zero
                 ELSE IF k < 0 - 971 THEN inf
                 ELSE [cls |-> "fin", neg |-> x.neg, n |-> n, k |-> k]

\* at most 15 significant digits, in the range of the normal doubles: two
\* such decimals are the same double only when they are the same decimal
Short(x) == x.kind = "fin" /\ Len(x.d) <= 15 /\ x.fl <= 300

\* one of two numbers is below zero and the other is not, and one of them
\* is short and not zero: neither rounds to the other
ApartBySign(a, b) ==
    /\ a.neg # b.neg
    /\ (Short(a) /\ ~IsZero(a)) \/ (Short(b) /\ ~IsZero(b))

\* b is an integer of at most 15 digits, which is a double, and a is b
\* followed by a fraction whose first 18 - Len(b.d) digits are zeros: a is
\* above b by less than b / 2^54, within half the gap to the next double,
\* and rounds to b
JustAbove(a, b) ==
    /\ a.kind = "fin" /\ b.kind = "fin" /\ a.neg = b.neg
    /\ b.fl = 0 /\ Len(b.d) \in 1..15
    /\ Len(a.d) - a.fl = Len(b.d)
    /\ \A i \in 1..Min({Len(a.d), 18}) : a.d[i] = (IF i <= Len(b.d) THEN b.d[i] ELSE 0)

\* two numbers that are not NaN are the same double
SameDouble(a, b) ==
    IF Short(a) /\ Short(b)
    THEN a.d = b.d /\ a.fl = b.fl /\ (a.neg = b.neg \/ IsZero(a))
    ELSE IF ApartBySign(a, b) THEN FALSE
    ELSE IF JustAbove(a, b) \/ JustAbove(b, a) THEN TRUE
    ELSE DoubleOf(a) = DoubleOf(b)

\* a > b on numbers; false when either is NaN, as in JavaScript
Gt(a, b) ==
    /\ a.kind # "nan"
    /\ b.kind # "nan"
    /\ GtExact(a, b)
    /\ ~SameDouble(a, b)

\* a >= b on numbers; false when either is NaN
Geq(a, b) == a.kind # "nan" /\ b.kind # "nan" /\ ~Gt(b, a)

\* x * 2
Times2(x) == IF x.kind = "fin" THEN Decimal(x.neg, MulSmall(x.d, 2, 0), x.fl) ELSE x

\* the digits of a string of decimal digits
DecDigits(s) == [i \in 1..Len(s) |-> DigitVal(s[i])]

\* the digits of the value of the first n of a string of hexadecimal digits
RECURSIVE HexDigitsValue(_, _)
HexDigitsValue(s, n) ==
    IF n = 0 THEN <<>> ELSE MulSmall(HexDigitsValue(s, n - 1), 16, HexVal(s[n]))

\* the value of the digits of an exponent, after acc; past cap it stays at
\* cap
RECURSIVE ExponentValue(_, _, _)
ExponentValue(s, acc, cap) ==
    IF s = <<>> THEN acc
    ELSE IF 10 * acc + DigitVal(Head(s)) > cap THEN ExponentValue(Tail(s), cap, cap)
    ELSE ExponentValue(Tail(s), 10 * acc + DigitVal(Head(s)), cap)

\* the value of the exponent digits at the head of r; 0 when there is none,
\* for then the e is not part of the literal
ExponentDigits(r, cap) == ExponentValue(SubSeq(r, 1, PrefixLen(r, Digits)), 0, cap)

\* the exponent that follows an e or E
SignedExponent(r, cap) ==
    IF r # <<>> /\ Head(r) = "-" THEN 0 - ExponentDigits(Tail(r), cap)
    ELSE IF r # <<>> /\ Head(r) = "+" THEN ExponentDigits(Tail(r), cap)
    ELSE ExponentDigits(r, cap)

\* the exponent part at the head of r, 0 when r has none
ExponentPart(r, cap) ==
    IF r # <<>> /\ Head(r) \in {"e", "E"} THEN SignedExponent(Tail(r), cap) ELSE 0

\* the digits ds, not all 0, the last fl of them a fraction, times 10^e: with
\* e at cap, 400 more than the number of digits, the number is above 10^400
\* and is Infinity; with e at -cap it is below 10^-400 and is zero; no
\* exponent is cut without one of the two
WithExponent(neg, ds, fl, e, cap) ==
    IF e >= cap THEN Infinity(neg)
    ELSE IF e <= 0 - cap THEN Decimal(neg, <<>>, 0)
    ELSE Decimal(neg, ds, fl - e)

\* the digits int, the digits frac after the point, and what follows them
WithFraction(neg, int, frac, r) ==
    IF int = <<>> /\ frac = <<>> THEN NaN
    ELSE IF AllZeros(DecDigits(int \o frac)) THEN Decimal(neg, <<>>, 0)
    ELSE WithExponent(neg, DecDigits(int \o frac), Len(frac),
                      ExponentPart(r, Len(int) + Len(frac) + 400),
                      Len(int) + Len(frac) + 400)

\* the digits int and what follows them: a point and digits, or not
DecimalLiteral(neg, int, r) ==
    IF r # <<>> /\ Head(r) = "."
    THEN WithFraction(neg, int, SubSeq(r, 2, 1 + PrefixLen(Tail(r), Digits)),
                      SubSeq(r, 2 + PrefixLen(Tail(r), Digits), Len(r)))
    ELSE WithFraction(neg, int, <<>>, r)

\* what follows the sign: Infinity, or a decimal literal
UnsignedLiteral(neg, u) ==
    IF StartsWith(u, <<"I", "n", "f", "i", "n", "i", "t", "y">>) THEN Infinity(neg)
    ELSE DecimalLiteral(neg, SubSeq(u, 1, PrefixLen(u, Digits)),
                        SubSeq(u, PrefixLen(u, Digits) + 1, Len(u)))

SignedLiteral(t) ==
    IF t # <<>> /\ Head(t) \in {"+", "-"} THEN UnsignedLiteral(Head(t) = "-", Tail(t))
    ELSE UnsignedLiteral(FALSE, t)

\* parseFloat: leading white space is skipped, then the longest prefix that
\* is a StrDecimalLiteral is read: a sign, then Infinity, or digits with an
\* optional fraction and an optional exponent; NaN when there is none
ParseFloat(s) == SignedLiteral(TrimStart(s))

\* a run of decimal or hexadecimal digits as an integer, NaN when it is empty
IntegerOf(neg, run, hex) ==
    IF run = <<>> THEN NaN
    ELSE Decimal(neg, (IF hex THEN HexDigitsValue(run, Len(run)) ELSE DecDigits(run)), 0)

\* what follows the sign: with a 0x or 0X prefix the longest run of
\* hexadecimal digits, without one the longest run of decimal digits
UnsignedInteger(neg, u) ==
    IF StartsWith(u, <<"0", "x">>) \/ StartsWith(u, <<"0", "X">>)
    THEN IntegerOf(neg, SubSeq(u, 3, 2 + PrefixLen(SubSeq(u, 3, Len(u)), HexDigits)), TRUE)
    ELSE IntegerOf(neg, SubSeq(u, 1, PrefixLen(u, Digits)), FALSE)

SignedInteger(t) ==
    IF t # <<>> /\ Head(t) \in {"+", "-"} THEN UnsignedInteger(Head(t) = "-", Tail(t))
    ELSE UnsignedInteger(FALSE, t)

\* parseInt with no radix: leading white space is skipped, then a sign and
\* an integer are read
ParseInt(s) == SignedInteger(TrimStart(s))

----------------------------------------------------------------------------
(* JavaScript values: the values of req.query.                             *)
(*                                                                         *)
(* Express hands a parameter over as undefined (not sent), a string, an    *)
(* array (sent more than once) or an object (sent with brackets).  The     *)
(* handler only tests such a value for truth and converts it to a string,  *)
(* so an array is held by its elements joined with ",", which is its       *)
(* string.                                                                 *)
(***************************************************************************)

Undefined == [kind |-> "undefined", val |-> <<>>]
Str(s) == [kind |-> "string", val |-> s]
Arr(joined) == [kind |-> "array", val |-> joined]
Obj == [kind |-> "object", val |-> <<>>]

\* !v for a value of req.query: only undefined and "" are falsy
FalsyParam(v) == v.kind = "undefined" \/ (v.kind = "string" /\ v.val = <<>>)

\* String(v) for a value of req.query that is not undefined
ParamString(v) ==
    IF v.kind = "object"
    THEN <<"[", "o", "b", "j", "e", "c", "t", " ", "O", "b", "j", "e", "c", "t", "]">>
    ELSE v.val

\* !x for a string that may be undefined
Falsy(o) == o = None \/ o[1] = <<>>

----------------------------------------------------------------------------
(* The function passed to page.evaluate (lines 115-190).                   *)
(*                                                                         *)
(* An element of the document is a record                                  *)
(*   testid : the data-testid attribute (absent or a string)               *)
(*   class  : the class names of the class attribute                       *)
(*   name   : textContent of the first descendant matching the name        *)
(*            selector of line 124 (absent when there is none)             *)
(*   href   : getAttribute('href') of the first a[href] descendant         *)
(*   fee    : what the patterns of lines 143-147 find in textContent:      *)
(*            aedDelivery, the capture of /AED\s*([\d.]+)\s*delivery/i;    *)
(*            deliveryAed, the capture of /delivery\s*[:-]?\s*AED\s*..../i;*)
(*            freeDelivery, whether /free\s*delivery/i matches.            *)
(* The discount, ETA and rating fields of a record are not modelled.       *)
(***************************************************************************)

Origin == <<"h","t","t","p","s",":","/","/","w","w","w",".","t","a","l","a","b","a","t",".","c","o","m">>

\* [class*="restaurant"] on one class name of the model's vocabulary
ClassContainsRestaurant(c) == c \in {"restaurant-card", "restaurant", "food-restaurant-tile"}

\* the three selectors of the list of line 117
MatchesTestId(el) == el.testid = Some("RESTAURANT_CARD")
MatchesCardClass(el) == \E i \in 1..Len(el.class) : el.class[i] = "restaurant-card"
MatchesClassContains(el) == \E i \in 1..Len(el.class) : ClassContainsRestaurant(el.class[i])

\* an element matches a selector list when it matches one of its selectors
MatchesCardSelectors(el) ==
    MatchesTestId(el) \/ MatchesCardClass(el) \/ MatchesClassContains(el)

\* document.querySelectorAll(list): every match, once, in document order
QuerySelectorAll(d) == SelectSeq(d, MatchesCardSelectors)

\* a name taken without trim()
RestaurantNameUntrimmed(el) == el.name

\* nameEl?.textContent?.trim()  (line 125)
RestaurantName(el) == IF IsSome(el.name) THEN Some(Trim(el.name[1])) ELSE None

\* linkEl ? 'https://www.talabat.com' + linkEl.getAttribute('href') : null
Link(el) == IF IsSome(el.href) THEN Some(Origin \o el.href[1]) ELSE None

\* lines 142-149
DeliveryFee(el) ==
    LET feeMatch == IF IsSome(el.fee.aedDelivery) THEN el.fee.aedDelivery
                    ELSE el.fee.deliveryAed
    IN  IF IsSome(feeMatch) THEN Some(ParseFloat(feeMatch[1]))
        ELSE IF el.fee.freeDelivery THEN Some(IntNumber(0))
        ELSE None

\* a skip that also drops a fee equal to the cap
FeeExceedsOrEquals(fee, maxFee) == IsSome(fee) /\ Geq(fee[1], maxFee)

\* deliveryFee !== null && deliveryFee > maxFee  (line 152)
FeeExceeds(fee, maxFee) == IsSome(fee) /\ Gt(fee[1], maxFee)

\* the object pushed at lines 171-181
Record(el) ==
    [platform |-> "talabat",
     restaurant |-> RestaurantName(el)[1],
     base_price |-> None,
     discounted_price |-> None,
     delivery_fee |-> DeliveryFee(el),
     link |-> Link(el)]

\* i < Math.min(cards.length, maxItems * 2): Math.min is NaN, and the test
\* false, when maxItems is NaN
InScan(i, len, mx) ==
    /\ mx.kind # "nan"
    /\ i < len
    /\ Gt(Times2(mx), IntNumber(i))

\* results.length >= maxItems: false when maxItems is NaN
ReachedMax(n, mx) == Geq(IntNumber(n), mx)

\* the for loop of lines 119-187, from index i (0-based) with results so far
RECURSIVE ScanLoop(_, _, _, _, _)
ScanLoop(cs, i, results, mx, maxFee) ==
    IF ~InScan(i, Len(cs), mx) THEN results
    ELSE LET card == cs[i + 1]
         IN  IF Falsy(RestaurantName(card))
             THEN ScanLoop(cs, i + 1, results, mx, maxFee)
             ELSE IF FeeExceeds(DeliveryFee(card), maxFee)
             THEN ScanLoop(cs, i + 1, results, mx, maxFee)
             ELSE LET pushed == Append(results, Record(card))
                  IN  IF ReachedMax(Len(pushed), mx) THEN pushed
                      ELSE ScanLoop(cs, i + 1, pushed, mx, maxFee)

\* const { max = 5 } = req.query, then parseInt(max): parseInt reads the
\* string of its argument, "5" for the default
MaxArgument(q) ==
    ParseInt(IF q.max.kind = "undefined" THEN <<"5">> ELSE ParamString(q.max))

----------------------------------------------------------------------------
(* The inputs of the model: documents, query parameters, environment. *)

NoFee == [aedDelivery |-> None, deliveryAed |-> None, freeDelivery |-> FALSE]

\* a card matched by its test id, with a name and nothing else
BaseElement ==
    [testid |-> Some("RESTAURANT_CARD"), class |-> <<>>,
     name |-> Some(<<"K">>), href |-> None, fee |-> NoFee]

\* no name element; a name of white space only; a padded name
ElementNames ==
    {None, Some(<<"\n", "U+00A0">>), Some(<<"\n", " ", "K", "\t", "U+FEFF">>)}

\* "free delivery"; "AED 10 delivery"; "AED . delivery";
\* "AED 10.0000000000000000001 delivery", which is the double 10;
\* "delivery: AED 12"; "AED 5 delivery ... delivery AED 12 ... free delivery"
ElementFees ==
    {[NoFee EXCEPT !.freeDelivery = TRUE],
     [NoFee EXCEPT !.aedDelivery = Some(<<"1", "0">>)],
     [NoFee EXCEPT !.aedDelivery = Some(<<".">>)],
     [NoFee EXCEPT !.aedDelivery =
         Some(<<"1", "0", ".", "0", "0", "0", "0", "0", "0", "0", "0", "0", "0",
                "0", "0", "0", "0", "0", "0", "0", "0", "0", "0", "1">>)],
     [NoFee EXCEPT !.deliveryAed = Some(<<"1", "2">>)],
     [aedDelivery |-> Some(<<"5">>), deliveryAed |-> Some(<<"1", "2">>),
      freeDelivery |-> TRUE]}

\* a root-relative href and an absolute one
ElementHrefs ==
    {Some(<<"/", "r">>), Some(<<"h", "t", "t", "p", "s", ":", "/", "/", "t", ".", "c", "o", "/", "r">>)}

\* elements without the test id: class restaurant-card, a class that only
\* contains "restaurant", and a class no selector matches
ElementClasses == {<<"restaurant-card">>, <<"food-restaurant-tile">>, <<"vendor">>}

\* the base element and every element that differs from it in one field
Elements ==
    {BaseElement}
      \cup {[BaseElement EXCEPT !.name = n] : n \in ElementNames}
      \cup {[BaseElement EXCEPT !.fee = f] : f \in ElementFees}
      \cup {[BaseElement EXCEPT !.href = h] : h \in ElementHrefs}
      \cup {[BaseElement EXCEPT !.testid = None, !.class = c] : c \in ElementClasses}

Documents == UNION {[1..n -> Elements] : n \in 0..MaxCards}

\* req.query.max: not sent; "\n0x33", which is 51; ["1", "2"], from
\* ?max=1&max=2, which is 1; "-x"
MaxParams ==
    {Undefined, Str(<<"\n", "0", "x", "3", "3">>), Arr(<<"1", ",", "2">>), Str(<<"-", "x">>)}

\* process.env.MAX_DELIVERY_FEE: unset; " -10e-1", which is -1
FeeEnvs == {None, Some(<<" ", "-", "1", "0", "e", "-", "1">>)}

\* parseFloat(process.env.MAX_DELIVERY_FEE || '10')  (line 7)
MaxDeliveryFeeOf(env) == ParseFloat(IF Falsy(env) THEN <<"1", "0">> ELSE env[1])

Pizza == <<"p", "i", "z", "z", "a">>
Dubai == <<"d", "u", "b", "a", "i">>

----------------------------------------------------------------------------
(* The middleware of /search and the cleanup of the rate limiter.          *)
(*                                                                         *)
(* rateLimiter is a function from the ips it holds to their timestamps.    *)
(* clock is Date.now(), in ms; it starts above 0 and never goes back.      *)
(***************************************************************************)

\* process.env.API_KEY || 'sk_live_1234567890', with API_KEY unset
API_KEY == "sk_live_1234567890"

RATE_LIMIT_WINDOW == 15000

\* the period of the setInterval of lines 240-247
CLEANUP_INTERVAL == 300000

\* req.ip of the requests of the model
IPs == {"10.0.0.1", "10.0.0.2"}

\* req.headers['x-api-key']: absent, wrong, right
ApiKeys == {None, Some("wrong"), Some(API_KEY)}

\* by how much the clock may advance in one step
ClockSteps == {1, 14999, 30001, 300000}

\* key !== API_KEY  (line 16)
Unauthorized(key) == key # Some(API_KEY)

\* rateLimiter.get(ip)
MapGet(map, ip) == IF ip \in DOMAIN map THEN Some(map[ip]) ELSE None

\* rateLimiter.set(ip, now)
MapSet(map, ip, now) ==
    [i \in DOMAIN map \cup {ip} |-> IF i = ip THEN now ELSE map[i]]

\* a limiter that takes the window for seconds
RateLimitedInSeconds(last, now) ==
    IsSome(last) /\ last[1] # 0 /\ now - last[1] < RATE_LIMIT_WINDOW \div 1000

\* lastRequest && now - lastRequest < RATE_LIMIT_WINDOW  (line 28)
RateLimited(last, now) ==
    IsSome(last) /\ last[1] # 0 /\ now - last[1] < RATE_LIMIT_WINDOW

\* Math.ceil(ms / 1000) for ms > 0
CeilSeconds(ms) == (ms + 999) \div 1000

\* now - timestamp > RATE_LIMIT_WINDOW * 2  (line 243)
Expired(now, timestamp) == now - timestamp > RATE_LIMIT_WINDOW * 2

----------------------------------------------------------------------------
(* The states before anything has happened. *)

RateIdle ==
    /\ rateLimiter = <<>>
    /\ clock = 1
    /\ nextCleanup = 1 + CLEANUP_INTERVAL
    /\ ticks = 0
    /\ served = 0
    /\ out = [ip |-> "", kind |-> "none", retry_after |-> 0]
    /\ admitted = [ip \in IPs |-> <<>>]

ReqIdle ==
    /\ pc = "idle"
    /\ timer = "unset"
    /\ race = "none"
    /\ errorMsg = ""
    /\ spc = "notstarted"
    /\ browser = "undefined"
    /\ proc = "none"
    /\ navigated = FALSE
    /\ responses = <<>>

EvalIdle ==
    /\ cards = <<>>
    /\ maxItems = NaN
    /\ items = <<>>
    /\ returned = FALSE

----------------------------------------------------------------------------
(* Spec: one GET /search request, from the handler's first line.           *)
(*                                                                         *)
(* Each action is one turn of the event loop: a promise the environment    *)
(* settles or a timer that fires, followed by every continuation that      *)
(* then runs up to its next await.  browser.close() is assumed to succeed. *)
(*                                                                         *)
(* Line 115 calls page.evaluate with three arguments: the function,        *)
(* parseInt(max) and MAX_DELIVERY_FEE.  Page.evaluate of Playwright takes  *)
(* the function and one argument, and rejects a call with more ("Too many  *)
(* arguments. If you need to pass more than 1 argument to the function     *)
(* wrap them in an object.").  So the scrape rejects at line 115, the      *)
(* function is never sent to the page, and lines 192-214 are never         *)
(* reached: no request is answered with items.                             *)
(***************************************************************************)

\* req.query of the requests of the model; ["a", "b"] from ?query=a&query=b
QueryParams == {Undefined, Str(<<>>), Str(Pizza), Arr(<<"a", ",", "b">>)}
LocationParams == {Undefined, Str(<<>>), Str(Dubai)}
SearchMaxParams == {Undefined, Str(<<"1">>)}

\* the documents page.goto may render: at most one element
PageDocuments == UNION {[1..n -> Elements] : n \in 0..1}

\* the awaits of the scrape that the environment settles, in order
ScrapeSteps == <<"launch", "newContext", "newPage", "goto", "waitForTimeout">>

\* the arguments of the call of page.evaluate at lines 115-190
EvaluateArguments(q) == <<"function", MaxArgument(q), maxDeliveryFee>>

\* Page.evaluate(pageFunction, arg) rejects a call with more than two arguments
TooManyArguments(args) == Len(args) > 2

\* a validation that forgets location
MissingParametersQueryOnly(q) == FalsyParam(q.query)

\* !query || !location  (line 65)
MissingParameters(q) == FalsyParam(q.query) \/ FalsyParam(q.location)

\* the response of lines 66-68
InvalidInputResponse ==
    [status |-> 400, error |-> "Missing required parameters: query and location",
     message |-> "", items |-> None]

\* the response of lines 231-235
FailureResponse(msg) ==
    [status |-> 500, error |-> "Scraping failed", message |-> msg, items |-> None]

\* a handler that answers every settlement, first or not
RaceAlwaysOpen == TRUE

\* Promise.race settles with the first promise that settles; a promise that
\* settles after that changes nothing
RaceUnsettled == race = "pending"

\* calling browser.close(): the process starts to shut down
CloseCalled(p) == IF p = "open" THEN "closing" ELSE p

\* the catch block of lines 220-236, entered with error.message = msg, up to
\* its await of browser.close() or, without a browser, to its response
CatchBlock(msg) ==
    /\ race' = "rejected"
    /\ errorMsg' = msg
    /\ IF browser = "handle"
       THEN /\ proc' = CloseCalled(proc)
            /\ pc' = "catchClose"
            /\ responses' = responses
       ELSE /\ proc' = proc
            /\ pc' = "done"
            /\ responses' = Append(responses, FailureResponse(msg))

\* the scrape promise rejects with error.message = msg: if the race is still
\* open the catch block runs with that error
ScrapeRejected(msg) ==
    /\ spc' = "rejected"
    /\ IF RaceUnsettled
       THEN CatchBlock(msg)
       ELSE UNCHANGED <<race, errorMsg, proc, pc, responses>>

Init ==
    /\ maxDeliveryFee = MaxDeliveryFeeOf(None)
    /\ req = [query |-> Undefined, location |-> Undefined, max |-> Undefined]
    /\ doc = <<>>
    /\ ReqIdle
    /\ EvalIdle
    /\ RateIdle

\* lines 58-93 and 217: validation, the timer, the start of the scrape up to
\* its await of chromium.launch, and the handler's await of Promise.race
Search(q, l, m) ==
    /\ pc = "idle"
    /\ req' = [query |-> q, location |-> l, max |-> m]
    /\ IF MissingParameters(req')
       THEN /\ responses' = Append(responses, InvalidInputResponse)
            /\ pc' = "done"
            /\ UNCHANGED <<timer, race, spc>>
       ELSE /\ timer' = "pending"
            /\ race' = "pending"
            /\ spc' = "launch"
            /\ pc' = "race"
            /\ UNCHANGED responses
    /\ UNCHANGED <<maxDeliveryFee, errorMsg, browser, proc, navigated, doc,
                   cards, maxItems, items, returned, varsRate>>

\* chromium.launch resolves: browser is assigned, newContext is called
LaunchResolve ==
    /\ spc = "launch"
    /\ browser' = "handle"
    /\ proc' = "open"
    /\ spc' = "newContext"
    /\ UNCHANGED <<maxDeliveryFee, req, pc, timer, race, errorMsg, navigated,
                   responses, varsEval, varsRate>>

\* browser.newContext resolves: context.newPage is called
NewContextResolve ==
    /\ spc = "newContext"
    /\ proc \in {"open", "closing"}
    /\ spc' = "newPage"
    /\ UNCHANGED <<maxDeliveryFee, req, pc, timer, race, errorMsg, browser, proc,
                   navigated, responses, varsEval, varsRate>>

\* context.newPage resolves: the timeouts are set and page.goto is called
NewPageResolve ==
    /\ spc = "newPage"
    /\ proc \in {"open", "closing"}
    /\ spc' = "goto"
    /\ navigated' = TRUE
    /\ UNCHANGED <<maxDeliveryFee, req, pc, timer, race, errorMsg, browser, proc,
                   responses, varsEval, varsRate>>

\* page.goto resolves with some document: page.waitForTimeout is called
GotoResolve ==
    /\ spc = "goto"
    /\ proc \in {"open", "closing"}
    /\ doc' \in PageDocuments
    /\ spc' = "waitForTimeout"
    /\ UNCHANGED <<maxDeliveryFee, req, pc, timer, race, errorMsg, browser, proc,
                   navigated, responses, cards, maxItems, items, returned, varsRate>>

\* page.waitForTimeout resolves: the arguments of page.evaluate are computed
\* and the call rejects, for it has too many of them; the await of line 115
\* throws and the scrape promise rejects
WaitResolve ==
    /\ spc = "waitForTimeout"
    /\ proc \in {"open", "closing"}
    /\ maxItems' = EvaluateArguments(req)[2]
    /\ TooManyArguments(EvaluateArguments(req))
    /\ ScrapeRejected("Too many arguments. If you need to pass more than 1 argument to the function wrap them in an object.")
    /\ UNCHANGED <<maxDeliveryFee, req, timer, browser, navigated, doc, cards,
                   items, returned, varsRate>>

\* an await of the scrape rejects: the scrape promise rejects with the error
\* of that step
ScrapeReject ==
    /\ \E i \in 1..Len(ScrapeSteps) : spc = ScrapeSteps[i]
    /\ ScrapeRejected(spc)
    /\ UNCHANGED <<maxDeliveryFee, req, timer, browser, navigated, varsEval, varsRate>>

\* the 28 s timer fires: timeoutPromise rejects, and if the race is still
\* open the catch block runs with 'Request timeout'
TimerFire ==
    /\ timer = "pending"
    /\ timer' = "fired"
    /\ IF RaceUnsettled
       THEN CatchBlock("Request timeout")
       ELSE UNCHANGED <<race, errorMsg, proc, pc, responses>>
    /\ UNCHANGED <<maxDeliveryFee, req, spc, browser, navigated, varsEval, varsRate>>

\* the process has shut down: the browser.close() of line 225 resolves and
\* the catch block sends its failure
CloseComplete ==
    /\ pc = "catchClose"
    /\ proc = "closing"
    /\ proc' = "closed"
    /\ responses' = Append(responses, FailureResponse(errorMsg))
    /\ pc' = "done"
    /\ UNCHANGED <<maxDeliveryFee, req, timer, race, errorMsg, spc, browser,
                   navigated, varsEval, varsRate>>

Next ==
    \/ \E q \in QueryParams, l \in LocationParams, m \in SearchMaxParams : Search(q, l, m)
    \/ LaunchResolve
    \/ NewContextResolve
    \/ NewPageResolve
    \/ GotoResolve
    \/ WaitResolve
    \/ ScrapeReject
    \/ TimerFire
    \/ CloseComplete

Spec == Init /\ [][Next]_vars

----------------------------------------------------------------------------
(* Claims about the /search handler, checked under Spec. *)

\* nothing more can happen to the request: the handler has answered and the
\* scrape promise has settled
RequestOver == pc = "done" /\ spc = "rejected"

\* C1: on every exit path of a validated request, the browser launched for it
\* is closed: no final state has a response sent and a launched browser open.
C1_BrowserClosed == RequestOver => proc \in {"none", "closed"}

\* the deadline timer fired before the scrape promise settled
TimeoutWon == race = "rejected" /\ errorMsg = "Request timeout"

\* C2: if the deadline timer fires before the scrape settles, the request gets
\* exactly one response, the failure with status 500 and message 'Request
\* timeout' and no items; the scrape settling later sends nothing more.
C2_TimeoutSingleResponse ==
    TimeoutWon =>
        /\ Len(responses) <= 1
        /\ pc = "done" => Len(responses) = 1
        /\ \A i \in 1..Len(responses) :
              /\ responses[i].status = 500
              /\ responses[i].message = "Request timeout"
              /\ responses[i].items = None

\* C2's case: the timer won, the abandoned scrape went on to line 115 and
\* settled there, and the one response is still the timeout failure
C2_Witness ==
    /\ TimeoutWon
    /\ spc = "rejected"
    /\ maxItems # NaN
    /\ pc = "done"
    /\ Len(responses) = 1

\* a required parameter of the request is missing or empty
RequestInvalid ==
    \E p \in {req.query, req.location} : p = Undefined \/ p = Str(<<>>)

\* C8: a request with a missing or empty required parameter is answered at
\* once with status 400 and no scrape is attempted: no timer, no browser, no
\* navigation.
C8_InvalidInput ==
    (pc # "idle" /\ RequestInvalid) =>
        /\ pc = "done"
        /\ Len(responses) = 1
        /\ responses[1].status = 400
        /\ timer = "unset"
        /\ race = "none"
        /\ spc = "notstarted"
        /\ browser = "undefined"
        /\ proc = "none"
        /\ ~navigated

\* C8's case: a request with a query and an empty location was answered 400
C8_Witness ==
    /\ pc = "done"
    /\ req.query = Str(Pizza)
    /\ req.location = Str(<<>>)
    /\ Len(responses) = 1
    /\ responses[1].status = 400

----------------------------------------------------------------------------
(* SpecCallback: the function of lines 115-190, applied to the arguments   *)
(* of line 190, parseInt(max) and MAX_DELIVERY_FEE, in every document, max *)
(* and fee cap of the bounds.  It describes the function; under Spec the   *)
(* call of page.evaluate rejects before the function runs.                 *)
(***************************************************************************)

InitCallback ==
    /\ \E env \in FeeEnvs : maxDeliveryFee = MaxDeliveryFeeOf(env)
    /\ \E m \in MaxParams : req = [query |-> Str(Pizza), location |-> Str(Dubai), max |-> m]
    /\ doc \in Documents
    /\ ReqIdle
    /\ EvalIdle
    /\ RateIdle

\* (maxItems, maxFee) => { ... } with maxItems = parseInt(max) and
\* maxFee = MAX_DELIVERY_FEE
Callback ==
    /\ ~returned
    /\ cards' = QuerySelectorAll(doc)
    /\ maxItems' = MaxArgument(req)
    /\ items' = ScanLoop(QuerySelectorAll(doc), 0, <<>>, MaxArgument(req), maxDeliveryFee)
    /\ returned' = TRUE
    /\ UNCHANGED <<maxDeliveryFee, doc, varsRate, varsReq>>

NextCallback == Callback

SpecCallback == InitCallback /\ [][NextCallback]_vars

----------------------------------------------------------------------------
(* Claims about the function of lines 115-190, checked under SpecCallback. *)

\* a fee that is no amount: null, or NaN, which JSON writes as null
FeeAbsent(f) == f = None \/ f[1].kind = "nan"

\* a record's fee is absent or at most the cap
FeeAbsentOrWithin(r, cap) == FeeAbsent(r.delivery_fee) \/ Geq(cap, r.delivery_fee[1])

HasName(el) == IsSome(el.name) /\ \E i \in 1..Len(el.name[1]) : el.name[1][i] \notin WhiteSpace

\* the longest prefix of a sequence with at most mx elements, mx a number
Take(sq, mx) ==
    LET fit == {j \in 0..Len(sq) : Geq(mx, IntNumber(j))}
    IN  IF fit = {} THEN <<>> ELSE SubSeq(sq, 1, Max(fit))

\* the cards the loop may visit: the first min(length, 2 * max) of them
ScanWindow(cs, mx) == Take(cs, Times2(mx))

\* the records of the named cards of the scan window, in order
BuiltRecords(cs, mx) ==
    LET named == SelectSeq(ScanWindow(cs, mx), HasName)
    IN  [i \in 1..Len(named) |-> Record(named[i])]

\* C3: the returned items are the order-preserved subsequence of the built
\* records whose delivery_fee is absent or <= the cap (cut at max): no record
\* over the cap is returned and the filter drops no record within it.
C3_FeeFilter ==
    returned =>
        LET Within(r) == FeeAbsentOrWithin(r, maxDeliveryFee)
            kept == SelectSeq(BuiltRecords(cards, maxItems), Within)
        IN  items = Take(kept, maxItems)

\* C3's case: three cards, one over the cap and dropped, one with a fee
\* equal to the cap and one without a fee, both returned, in their order
C3_Witness ==
    /\ returned
    /\ Len(cards) = 3
    /\ Len(items) = 2
    /\ IsSome(DeliveryFee(cards[2])) /\ Gt(DeliveryFee(cards[2])[1], maxDeliveryFee)
    /\ IsSome(items[1].delivery_fee)
    /\ Geq(items[1].delivery_fee[1], maxDeliveryFee)
    /\ items[2].delivery_fee = None

\* C4: for max >= 1, at most max records are returned, and exactly max
\* whenever the located cards hold at least max valid cards, wherever they sit.
C4_ExactlyMax ==
    (returned /\ Geq(maxItems, IntNumber(1))) =>
        LET Valid(el) == HasName(el) /\ FeeAbsentOrWithin(Record(el), maxDeliveryFee)
        IN  /\ Geq(maxItems, IntNumber(Len(items)))
            /\ Geq(IntNumber(Len(SelectSeq(cards, Valid))), maxItems)
                   => maxItems = IntNumber(Len(items))

\* C5: every returned record has a non-empty restaurant name, with no white
\* space around it: a card without a name element or with a blank name is
\* skipped.
C5_NameNonEmpty ==
    returned =>
        \A i \in 1..Len(items) :
            /\ items[i].restaurant # <<>>
            /\ Head(items[i].restaurant) \notin WhiteSpace
            /\ items[i].restaurant[Len(items[i].restaurant)] \notin WhiteSpace

\* C5's case: a card without a name element and a card with a blank name
\* were scanned and skipped, and a card with a padded name was returned
C5_Witness ==
    /\ returned
    /\ Geq(maxItems, IntNumber(3))
    /\ Len(cards) = 3
    /\ cards[1].name = None
    /\ IsSome(cards[2].name) /\ ~HasName(cards[2])
    /\ HasName(cards[3]) /\ Head(cards[3].name[1]) \in WhiteSpace
    /\ Len(items) = 1

\* the elements of the first of the three selectors that matches any
FirstMatchingStrategy(d) ==
    IF SelectSeq(d, MatchesTestId) # <<>> THEN SelectSeq(d, MatchesTestId)
    ELSE IF SelectSeq(d, MatchesCardClass) # <<>> THEN SelectSeq(d, MatchesCardClass)
    ELSE SelectSeq(d, MatchesClassContains)

\* C6: the located cards are the elements of only the first selector
\* strategy (test id, .restaurant-card, class containing "restaurant") that
\* matches at least one element.
C6_FirstStrategyOnly == returned => cards = FirstMatchingStrategy(doc)

\* the link the claim expects of an element
NormalizedLink(el) ==
    IF el.href = None THEN None
    ELSE IF el.href[1] # <<>> /\ Head(el.href[1]) = "/" THEN Some(Origin \o el.href[1])
    ELSE el.href

\* C7: a record's link is its card's href, with the origin prefixed only
\* when the href is root-relative; an absolute href is returned unchanged.
C7_LinkNormalized ==
    returned =>
        \A i \in 1..Len(items) :
            \E j \in 1..Len(cards) : items[i].link = NormalizedLink(cards[j])

\* C9: the max-results value the extraction is given is an integer in 1..50,
\* whatever max the caller sent.
C9_MaxClamped == returned => \E n \in 1..50 : maxItems = IntNumber(n)

----------------------------------------------------------------------------
(* SpecRate: requests through requireAuth and rateLimit, and the cleanup. *)

InitRate ==
    /\ maxDeliveryFee = MaxDeliveryFeeOf(None)
    /\ req = [query |-> Undefined, location |-> Undefined, max |-> Undefined]
    /\ doc = <<>>
    /\ ReqIdle
    /\ EvalIdle
    /\ RateIdle

\* time passes
Tick(d) ==
    /\ ticks < MaxTicks
    /\ ticks' = ticks + 1
    /\ clock' = clock + d
    /\ UNCHANGED <<maxDeliveryFee, rateLimiter, nextCleanup, served, out, admitted,
                   req, doc, varsReq, varsEval>>

\* a request for /search from ip with x-api-key key: requireAuth (lines
\* 14-20), then rateLimit (lines 23-37); next() hands it to the handler
Request(ip, key) ==
    /\ served < MaxRequests
    /\ served' = served + 1
    /\ IF Unauthorized(key)
       THEN /\ out' = [ip |-> ip, kind |-> "unauthorized", retry_after |-> 0]
            /\ UNCHANGED <<rateLimiter, admitted>>
       ELSE IF RateLimited(MapGet(rateLimiter, ip), clock)
       THEN /\ out' = [ip |-> ip, kind |-> "limited",
                       retry_after |->
                           CeilSeconds(RATE_LIMIT_WINDOW - (clock - rateLimiter[ip]))]
            /\ UNCHANGED <<rateLimiter, admitted>>
       ELSE /\ rateLimiter' = MapSet(rateLimiter, ip, clock)
            /\ admitted' = [admitted EXCEPT ![ip] = Append(@, clock)]
            /\ out' = [ip |-> ip, kind |-> "next", retry_after |-> 0]
    /\ UNCHANGED <<maxDeliveryFee, clock, nextCleanup, ticks, req, doc, varsReq, varsEval>>

\* the setInterval callback of lines 240-247, when it is due
Cleanup ==
    /\ clock >= nextCleanup
    /\ rateLimiter' =
           [ip \in {i \in DOMAIN rateLimiter : ~Expired(clock, rateLimiter[i])}
               |-> rateLimiter[ip]]
    /\ nextCleanup' = clock + CLEANUP_INTERVAL
    /\ UNCHANGED <<maxDeliveryFee, clock, ticks, served, out, admitted,
                   req, doc, varsReq, varsEval>>

NextRate ==
    \/ \E d \in ClockSteps : Tick(d)
    \/ \E ip \in IPs, key \in ApiKeys : Request(ip, key)
    \/ Cleanup

SpecRate == InitRate /\ [][NextRate]_vars

----------------------------------------------------------------------------
(* The claim about the rate limiter, checked under SpecRate. *)

\* any two requests of one ip that passed rateLimit arrived 15000 ms apart
AdmittedApart ==
    \A ip \in IPs :
        \A i, j \in 1..Len(admitted[ip]) :
            i < j => admitted[ip][j] - admitted[ip][i] >= 15000

\* a request answered 429 leaves the map as it was
RejectKeepsMap ==
    (served' # served /\ out'.kind = "limited") => rateLimiter' = rateLimiter

\* an entry leaves the map only when it is older than 30000 ms
DeleteOnlyOld ==
    \A ip \in DOMAIN rateLimiter :
        ip \notin DOMAIN rateLimiter' => clock - rateLimiter[ip] > 30000

\* C10: at most one request per 15 s per ip passes rateLimit, under any
\* interleaving with the cleanup; a 429 does not touch the stored timestamp;
\* the cleanup deletes only entries older than 30000 ms.
C10_RateLimit ==
    /\ []AdmittedApart
    /\ [][RejectKeepsMap]_vars
    /\ [][DeleteOnlyOld]_vars

\* C10's case: an ip was admitted twice exactly 15000 ms apart and then
\* answered 429, after the cleanup had deleted the entry of the other ip
C10_Witness ==
    \E ip \in IPs :
        /\ Len(admitted[ip]) = 2
        /\ admitted[ip][2] - admitted[ip][1] = 15000
        /\ out = [ip |-> ip, kind |-> "limited", retry_after |-> 15]
        /\ \E other \in IPs \ {ip} :
              /\ Len(admitted[other]) = 1
              /\ other \notin DOMAIN rateLimiter

====
